---- MODULE Spec2Model ----
(***************************************************************************)
(* Reverse-mode automatic differentiation over a dynamically built graph   *)
(* of Node<T> (autodiff/src/node.rs).  The graph lives in a heap of node   *)
(* records; operand links are indices of the Rc<RefCell<Node<T>>> cells.   *)
(***************************************************************************)
EXTENDS Integers, Sequences, FiniteSets, TLC

(***************************************************************************)
(* Bounds of the model.                                                    *)
(***************************************************************************)
MaxNodes == 5

MaxLeaves == 3

MaxPasses == 1

MaxMag == 30000

MaxExp == 6

RepeatNodes == 4

SharedNodes == 6

SharedLeaves == 2

MaxRank == 2

MaxData == 4

UsizeLimbs == 2

U16Max == 65535

ShapeNums == {0, 1, 2}

ElemNums == {1, 65535}

LeafNums == {2, 3}

SeedNums == {1, 10}

GradNums == {1}

(***************************************************************************)
(* The element type T: RealElement, instantiated as f64.  A value is       *)
(* either a rational <<"q", n, d>> in lowest terms with d >= 0, where      *)
(* d = 0 encodes the IEEE special values (n = 1: +inf, n = -1: -inf,       *)
(* n = 0: NaN), or an unevaluated term <<"exp", x>>, <<"ln", x>>,          *)
(* <<"pow", b, e>>, <<"add", x, y>>, <<"mul", x, y>>, <<"div", x, y>>      *)
(* standing for a result that is not rational, or whose numerator or       *)
(* denominator exceeds MaxMag (powers are evaluated up to the exponent     *)
(* MaxExp).  Terms are equal only when they are the same expression.       *)
(***************************************************************************)
Abs(i) == IF i < 0 THEN -i ELSE i

Sign(i) == IF i < 0 THEN -1 ELSE IF i = 0 THEN 0 ELSE 1

RECURSIVE Gcd(_, _)
Gcd(a, b) == IF b = 0 THEN a ELSE Gcd(b, a % b)

Q(n, d) ==
    IF d = 0 THEN <<"q", Sign(n), 0>>
    ELSE LET g == Gcd(Abs(n), Abs(d))
             s == Sign(d)
         IN  <<"q", (s * n) \div g, (s * d) \div g>>

Num(i) == Q(i, 1)

PosInf == Q(1, 0)

NegInf == Q(-1, 0)

NaN == Q(0, 0)

IsQ(x) == x[1] = "q"

IsFinite(x) == IsQ(x) /\ x[3] # 0

Fits(q) == Abs(q[2]) <= MaxMag /\ q[3] <= MaxMag

TAdd(x, y) ==
    IF IsQ(x) /\ IsQ(y)
    THEN LET q == IF x[3] = 0 /\ y[3] = 0
                  THEN (IF x[2] = y[2] THEN x ELSE NaN)
                  ELSE Q(x[2] * y[3] + y[2] * x[3], x[3] * y[3])
         IN  IF Fits(q) THEN q ELSE <<"add", x, y>>
    ELSE <<"add", x, y>>

TMul(x, y) ==
    IF IsQ(x) /\ IsQ(y)
    THEN LET q == Q(x[2] * y[2], x[3] * y[3])
         IN  IF Fits(q) THEN q ELSE <<"mul", x, y>>
    ELSE <<"mul", x, y>>

TDiv(x, y) ==
    IF IsQ(x) /\ IsQ(y)
    THEN LET q == IF x[3] = 0 /\ y[3] = 0 THEN NaN
                  ELSE IF y[2] < 0 THEN Q(-(x[2] * y[3]), -(x[3] * y[2]))
                  ELSE Q(x[2] * y[3], x[3] * y[2])
         IN  IF Fits(q) THEN q ELSE <<"div", x, y>>
    ELSE <<"div", x, y>>

TExp(x) ==
    IF ~IsQ(x) THEN <<"exp", x>>
    ELSE IF x = Num(0) THEN Num(1)
    ELSE IF x = PosInf THEN PosInf
    ELSE IF x = NegInf THEN Num(0)
    ELSE IF x = NaN THEN NaN
    ELSE <<"exp", x>>

TLn(x) ==
    IF ~IsQ(x) THEN <<"ln", x>>
    ELSE IF x = Num(1) THEN Num(0)
    ELSE IF x = Num(0) THEN NegInf
    ELSE IF x = PosInf THEN PosInf
    ELSE IF x[2] < 0 \/ x = NaN THEN NaN
    ELSE <<"ln", x>>

RECURSIVE IntPow(_, _)
IntPow(b, k) == IF k = 0 THEN Num(1) ELSE TMul(b, IntPow(b, k - 1))

TPow(b, e) ==
    IF IsQ(e) /\ e = Num(0) THEN Num(1)
    ELSE IF IsQ(b) /\ b = Num(1) THEN Num(1)
    ELSE IF IsQ(b) /\ IsFinite(e) /\ e[3] = 1 /\ Abs(e[2]) <= MaxExp
    THEN LET p == IntPow(b, Abs(e[2]))
             q == IF e[2] > 0 THEN p ELSE TDiv(Num(1), p)
         IN  IF IsQ(q) THEN q ELSE <<"pow", b, e>>
    ELSE <<"pow", b, e>>

FromF64(i) == Num(i)

(***************************************************************************)
(* Option<T>.                                                              *)
(***************************************************************************)
None == <<"none">>

Some(x) == <<"some", x>>

IsSome(o) == o[1] = "some"

Unwrap(o) == o[2]

(***************************************************************************)
(* State.  heap[i] is the node held by cell i (or by the client variable   *)
(* i while the node has not been moved into a parent); owned is the set of *)
(* nodes the client still holds by value.  built[i] is the operator that   *)
(* built node i and last describes the latest call; passes counts the      *)
(* calls that write gradients; panicked is set when the program stopped on *)
(* a panic.  A program that works on tensors (see TensorImpl below) holds  *)
(* no Node: its calls are recorded in last and the heap stays empty.       *)
(***************************************************************************)
VARIABLES heap, owned, built, last, passes, panicked

vars == <<heap, owned, built, last, passes, panicked>>

Ids == DOMAIN heap

NextId == Len(heap) + 1

(***************************************************************************)
(* impl Node<T>.                                                           *)
(***************************************************************************)
new(v, g) == [tag |-> "Leaf", val |-> v, grad |-> g, ops |-> <<>>]

val(n) == n.val

grad(n) == n.grad

\* Faulty variant of set_grad: the new gradient lands in the value field too.
set_grad_IntoValue(n, new_grad) ==
    [n EXCEPT !.val = new_grad, !.grad = Some(new_grad)]

\* Faulty variant of set_grad: add to the stored gradient instead of
\* overwriting it.
set_grad_Accumulate(n, new_grad) ==
    [n EXCEPT !.grad = IF IsSome(@) THEN Some(TAdd(Unwrap(@), new_grad))
                       ELSE Some(new_grad)]

set_grad(n, new_grad) == [n EXCEPT !.grad = Some(new_grad)]

(***************************************************************************)
(* The graph-building operators.  Each takes the heap h and the operands   *)
(* it consumes, moves the operands unchanged into the cells a new parent   *)
(* refers to, and yields the heap with that parent appended.               *)
(***************************************************************************)
\* Faulty variant of add: the operands are moved with their gradients reset.
add_ResetsOperands(h, l, r) ==
    Append([h EXCEPT ![l].grad = None, ![r].grad = None],
           [tag |-> "Sum", val |-> TAdd(val(h[l]), val(h[r])), grad |-> None,
            ops |-> <<l, r>>])

add(h, l, r) ==
    Append(h, [tag |-> "Sum", val |-> TAdd(val(h[l]), val(h[r])),
               grad |-> None, ops |-> <<l, r>>])

\* Faulty variant of mul: the product starts with the receiver's gradient.
mul_KeepsGrad(h, l, r) ==
    Append(h, [tag |-> "Prod", val |-> TMul(val(h[l]), val(h[r])),
               grad |-> grad(h[l]), ops |-> <<l, r>>])

mul(h, l, r) ==
    Append(h, [tag |-> "Prod", val |-> TMul(val(h[l]), val(h[r])),
               grad |-> None, ops |-> <<l, r>>])

\* Faulty variant of div: the product's value, copied with the Prod tag.
div_ProductValue(h, l, r) ==
    Append(h, [tag |-> "Prod", val |-> TMul(val(h[l]), val(h[r])),
               grad |-> None, ops |-> <<l, r>>])

\* Faulty variant of div: the quotient is tagged as a sum.
div_SumTagged(h, l, r) ==
    Append(h, [tag |-> "Sum", val |-> TDiv(val(h[l]), val(h[r])),
               grad |-> None, ops |-> <<l, r>>])

div(h, l, r) ==
    Append(h, [tag |-> "Prod", val |-> TDiv(val(h[l]), val(h[r])),
               grad |-> None, ops |-> <<l, r>>])

exp(h, x) ==
    Append(h, [tag |-> "Exp", val |-> TExp(val(h[x])), grad |-> None,
               ops |-> <<x>>])

\* Faulty variant of ln: the logarithm carries the Ln tag.
ln_LnTagged(h, x) ==
    Append(h, [tag |-> "Ln", val |-> TLn(val(h[x])), grad |-> None,
               ops |-> <<x>>])

ln(h, x) ==
    Append(h, [tag |-> "Exp", val |-> TLn(val(h[x])), grad |-> None,
               ops |-> <<x>>])

\* Faulty variant of pow: the new node is linked as its own exponent.
pow_SelfExponent(h, b, e) ==
    Append(h, [tag |-> "Pow", val |-> TPow(val(h[b]), val(h[e])),
               grad |-> None, ops |-> <<b, Len(h) + 1>>])

pow(h, b, e) ==
    Append(h, [tag |-> "Pow", val |-> TPow(val(h[b]), val(h[e])),
               grad |-> None, ops |-> <<b, e>>])

\* Faulty variant of clone: the copy does not refer to the operands.
clone_Detached(n) == [tag |-> "Leaf", val |-> n.val, grad |-> n.grad, ops |-> <<>>]

clone(n) == [tag |-> n.tag, val |-> n.val, grad |-> n.grad, ops |-> n.ops]

(***************************************************************************)
(* propagate_backward.  r = [h, ok, trace]: the heap, whether the program  *)
(* is still running, and the nodes propagate_backward was invoked on, in   *)
(* order.  held is the set of cells with a live RefMut (the receivers of   *)
(* the enclosing calls).                                                   *)
(***************************************************************************)
\* Faulty variant of the panic: the call returns early and the program runs on.
Stop_ReturnsEarly(r) == r

Stop(r) == [r EXCEPT !.ok = FALSE]

BorrowSetGrad(r, c, g, held) ==
    IF ~r.ok THEN r
    ELSE IF c \in held THEN Stop(r)
    ELSE [r EXCEPT !.h[c] = set_grad(@, g)]

RECURSIVE propagate_backward(_, _, _)
\* Faulty variant of the recursion: a visited set, a node propagate_backward
\* already ran on is not entered again.
Recurse_SkipsVisited(r, c, held) ==
    IF ~r.ok THEN r
    ELSE IF c \in held THEN Stop(r)
    ELSE IF \E k \in DOMAIN r.trace : r.trace[k] = c THEN r
    ELSE propagate_backward(r, c, held \cup {c})

Recurse(r, c, held) ==
    IF ~r.ok THEN r
    ELSE IF c \in held THEN Stop(r)
    ELSE propagate_backward(r, c, held \cup {c})

\* Faulty variant of the Sum arm: the second operand is not recursed into.
SumArm_SkipSecond(r0, n, self_grad, held) ==
    LET n1 == n.ops[1]
        n2 == n.ops[2]
        r1 == BorrowSetGrad(r0, n1, self_grad, held)
        r2 == BorrowSetGrad(r1, n2, self_grad, held)
    IN  Recurse(r2, n1, held)

\* Faulty variant of the Sum arm: the operands get the local derivative 1
\* instead of the parent's gradient.
SumArm_UnitGrad(r0, n, self_grad, held) ==
    LET n1 == n.ops[1]
        n2 == n.ops[2]
        r1 == BorrowSetGrad(r0, n1, FromF64(1), held)
        r2 == BorrowSetGrad(r1, n2, FromF64(1), held)
        r3 == Recurse(r2, n1, held)
    IN  Recurse(r3, n2, held)

SumArm(r0, n, self_grad, held) ==
    LET n1 == n.ops[1]
        n2 == n.ops[2]
        r1 == BorrowSetGrad(r0, n1, self_grad, held)
        r2 == BorrowSetGrad(r1, n2, self_grad, held)
        r3 == Recurse(r2, n1, held)
    IN  Recurse(r3, n2, held)

\* Faulty variant of the Prod arm: each operand gets its own value times the
\* parent's gradient.
ProdArm_OwnValue(r0, n, self_grad, held) ==
    LET n1 == n.ops[1]
        n2 == n.ops[2]
        r1 == BorrowSetGrad(r0, n1, TMul(val(r0.h[n1]), self_grad), held)
        r2 == BorrowSetGrad(r1, n2, TMul(val(r1.h[n2]), self_grad), held)
        r3 == Recurse(r2, n1, held)
    IN  Recurse(r3, n2, held)

\* Faulty variant of the Prod arm: the parent's gradient is left out, as in
\* the Exp, Ln and Pow arms.
ProdArm_NoChain(r0, n, self_grad, held) ==
    LET n1 == n.ops[1]
        n2 == n.ops[2]
        r1 == BorrowSetGrad(r0, n1, val(r0.h[n2]), held)
        r2 == BorrowSetGrad(r1, n2, val(r1.h[n1]), held)
        r3 == Recurse(r2, n1, held)
    IN  Recurse(r3, n2, held)

ProdArm(r0, n, self_grad, held) ==
    LET n1 == n.ops[1]
        n2 == n.ops[2]
        r1 == IF n1 = n2 \/ n2 \in held THEN Stop(r0)
              ELSE BorrowSetGrad(r0, n1,
                       TMul(val(r0.h[n2]), self_grad), held)
        r2 == IF ~r1.ok THEN r1
              ELSE IF n1 \in held THEN Stop(r1)
              ELSE BorrowSetGrad(r1, n2,
                       TMul(val(r1.h[n1]), self_grad), held)
        r3 == Recurse(r2, n1, held)
    IN  Recurse(r3, n2, held)

\* Faulty variant of the Exp arm: the chain rule is applied, the operand gets
\* the node's value times the node's gradient.
ExpArm_Chained(r0, n, self_val, held) ==
    LET x == n.ops[1]
        r1 == BorrowSetGrad(r0, x, TMul(self_val, Unwrap(grad(n))), held)
    IN  Recurse(r1, x, held)

ExpArm(r0, n, self_val, held) ==
    LET x == n.ops[1]
        r1 == BorrowSetGrad(r0, x, self_val, held)
    IN  Recurse(r1, x, held)

LnArm(r0, n, self_val, held) ==
    LET x == n.ops[1]
        r1 == BorrowSetGrad(r0, x, TDiv(FromF64(1), self_val), held)
    IN  Recurse(r1, x, held)

PowArm(r0, n, held) ==
    LET b == n.ops[1]
        e == n.ops[2]
        b_val == val(r0.h[b])
        e_val == val(r0.h[e])
        minus_one == FromF64(-1)
        r1 == IF b \in held \/ e \in held THEN Stop(r0)
              ELSE BorrowSetGrad(r0, b,
                       TMul(e_val, TPow(b_val, TAdd(e_val, minus_one))),
                       held)
        r2 == BorrowSetGrad(r1, e,
                  TMul(TPow(b_val, e_val), TLn(b_val)), held)
        r3 == Recurse(r2, b, held)
    IN  Recurse(r3, e, held)

propagate_backward(r, self, held) ==
    IF ~r.ok THEN r
    ELSE IF ~IsSome(grad(r.h[self])) THEN Stop(r)
    ELSE
    LET n == r.h[self]
        self_val == val(n)
        self_grad == Unwrap(grad(n))
        r0 == [r EXCEPT !.trace = Append(@, self)]
    IN
    CASE n.tag = "Sum" -> SumArm(r0, n, self_grad, held)
      [] n.tag = "Prod" -> ProdArm(r0, n, self_grad, held)
      [] n.tag = "Exp" -> ExpArm(r0, n, self_val, held)
      [] n.tag = "Ln" -> LnArm(r0, n, self_val, held)
      [] n.tag = "Pow" -> PowArm(r0, n, held)
      [] n.tag = "Leaf" -> r0

Running(h) == [h |-> h, ok |-> TRUE, trace |-> <<>>]

\* Faulty variant of backward: the receiver is not seeded before propagating.
backward_Unseeded(h, self, gradient) ==
    propagate_backward(Running(h), self, {self})

backward(h, self, gradient) ==
    propagate_backward(
        Running([h EXCEPT ![self] = set_grad(@, gradient)]), self, {self})

(***************************************************************************)
(* Inputs of the client program.                                           *)
(***************************************************************************)
LeafVals == {Num(i) : i \in LeafNums}

SeedVals == {Num(i) : i \in SeedNums}

GradVals == {Num(i) : i \in GradNums}

\* The arguments of Node::new: any leaf value without a gradient, and one
\* leaf value with a gradient given at construction (tests::test_new).
LeafInputs ==
    {<<v, None>> : v \in LeafVals}
    \cup {<<Num(3), Some(g)>> : g \in GradVals}

Call(name, args, res, seed, trace) ==
    [op |-> name, args |-> args, res |-> res, seed |-> seed,
     trace |-> trace, pre |-> heap]

NoOp == [op |-> "init", args |-> <<>>, res |-> 0, seed |-> None,
         trace |-> <<>>, pre |-> <<>>]

Init ==
    /\ heap = <<>>
    /\ owned = {}
    /\ built = <<>>
    /\ last = NoOp
    /\ passes = 0
    /\ panicked = FALSE

(***************************************************************************)
(* Client steps: one per public operation of Node<T>, applied to the nodes *)
(* the client holds by value.  A binary operator consumes two different    *)
(* nodes (both operands are moved), clone leaves its source with the       *)
(* client, and nothing runs after a panic.                                 *)
(***************************************************************************)
Construct(h, name, args) ==
    /\ heap' = h
    /\ owned' = (owned \ {args[i] : i \in DOMAIN args}) \cup {NextId}
    /\ built' = Append(built, name)
    /\ last' = Call(name, args, NextId, None, <<>>)
    /\ UNCHANGED <<passes, panicked>>

New ==
    /\ ~panicked
    /\ NextId <= MaxNodes
    /\ Cardinality({i \in Ids : built[i] = "new"}) < MaxLeaves
    /\ \E leaf \in LeafInputs :
          /\ heap' = Append(heap, new(leaf[1], leaf[2]))
          /\ owned' = owned \cup {NextId}
          /\ built' = Append(built, "new")
          /\ last' = Call("new", <<>>, NextId, None, <<>>)
          /\ UNCHANGED <<passes, panicked>>

Add ==
    /\ ~panicked
    /\ NextId <= MaxNodes
    /\ \E l \in owned : \E r \in owned \ {l} :
          Construct(add(heap, l, r), "add", <<l, r>>)

Mul ==
    /\ ~panicked
    /\ NextId <= MaxNodes
    /\ \E l \in owned : \E r \in owned \ {l} :
          Construct(mul(heap, l, r), "mul", <<l, r>>)

Div ==
    /\ ~panicked
    /\ NextId <= MaxNodes
    /\ \E l \in owned : \E r \in owned \ {l} :
          Construct(div(heap, l, r), "div", <<l, r>>)

Exp ==
    /\ ~panicked
    /\ NextId <= MaxNodes
    /\ \E x \in owned :
          Construct(exp(heap, x), "exp", <<x>>)

Ln ==
    /\ ~panicked
    /\ NextId <= MaxNodes
    /\ \E x \in owned :
          Construct(ln(heap, x), "ln", <<x>>)

Pow ==
    /\ ~panicked
    /\ NextId <= MaxNodes
    /\ \E b \in owned : \E e \in owned \ {b} :
          Construct(pow(heap, b, e), "pow", <<b, e>>)

Clone ==
    /\ ~panicked
    /\ NextId <= MaxNodes
    /\ \E x \in owned :
          /\ heap' = Append(heap, clone(heap[x]))
          /\ owned' = owned \cup {NextId}
          /\ built' = Append(built, built[x])
          /\ last' = Call("clone", <<x>>, NextId, None, <<>>)
          /\ UNCHANGED <<passes, panicked>>

SetGrad ==
    /\ ~panicked
    /\ passes < MaxPasses
    /\ \E x \in owned, g \in GradVals :
          /\ heap' = [heap EXCEPT ![x] = set_grad(@, g)]
          /\ passes' = passes + 1
          /\ last' = Call("set_grad", <<x>>, x, Some(g), <<>>)
          /\ UNCHANGED <<owned, built, panicked>>

Backward ==
    /\ ~panicked
    /\ passes < MaxPasses
    /\ \E root \in owned, g \in SeedVals :
          LET r == backward(heap, root, g) IN
          /\ heap' = r.h
          /\ panicked' = ~r.ok
          /\ passes' = passes + 1
          /\ last' = Call("backward", <<root>>, root, Some(g), r.trace)
          /\ UNCHANGED <<owned, built>>

PropagateBackward ==
    /\ ~panicked
    /\ passes < MaxPasses
    /\ \E root \in owned :
          LET r == propagate_backward(Running(heap), root, {root}) IN
          /\ heap' = r.h
          /\ panicked' = ~r.ok
          /\ passes' = passes + 1
          /\ last' = Call("propagate_backward", <<root>>, root, None,
                           r.trace)
          /\ UNCHANGED <<owned, built>>

Next ==
    \/ New
    \/ Add
    \/ Mul
    \/ Div
    \/ Exp
    \/ Ln
    \/ Pow
    \/ Clone
    \/ SetGrad
    \/ Backward
    \/ PropagateBackward

Spec == Init /\ [][Next]_vars

(***************************************************************************)
(* Graph vocabulary used by the properties.                                *)
(***************************************************************************)
Operands(h, i) == {h[i].ops[j] : j \in DOMAIN h[i].ops}

RECURSIVE Closure(_, _, _)
Closure(h, S, n) ==
    IF n = 0 THEN S
    ELSE Closure(h, S \cup UNION {Operands(h, i) : i \in S}, n - 1)

\* The nodes reachable from i through operand links, i included.
Reachable(h, i) == Closure(h, {i}, Len(h))

\* The nodes reachable from i through at least one operand link.
Below(h, i) == Closure(h, Operands(h, i), Len(h))

Returned(name) == last.op = name /\ ~panicked

Root == last.res

Seed == Unwrap(last.seed)

Operand(i, j) == heap[i].ops[j]

(***************************************************************************)
(* C1: after root.backward(seed) returns, the returned node is the root,   *)
(* its gradient is exactly Some(seed), and every node reachable from the   *)
(* root through operand links has a gradient that is Some.                 *)
(***************************************************************************)
C1_BackwardFillsGraph ==
    Returned("backward") =>
        /\ Root = last.args[1]
        /\ Root \in owned
        /\ grad(heap[Root]) = Some(Seed)
        /\ \A i \in Reachable(heap, Root) : IsSome(grad(heap[i]))

\* A backward pass over a graph two operand links deep whose nodes all had
\* no gradient before the call.
C1_Witness ==
    /\ Returned("backward")
    /\ \E i \in Operands(heap, Root) : Operands(heap, i) # {}
    /\ \A i \in Reachable(heap, Root) : ~IsSome(grad(last.pre[i]))

(***************************************************************************)
(* C2: the value stored in a node built by +, *, /, exp, ln or pow is that *)
(* operator applied to its operands' values (the receiver first), in every *)
(* state, before and after any backward call.                              *)
(***************************************************************************)
OperatorValue(i) ==
    LET x == val(heap[Operand(i, 1)])
        y == val(heap[Operand(i, 2)])
    IN  CASE built[i] = "add" -> TAdd(x, y)
          [] built[i] = "mul" -> TMul(x, y)
          [] built[i] = "div" -> TDiv(x, y)
          [] built[i] = "exp" -> TExp(x)
          [] built[i] = "ln" -> TLn(x)
          [] built[i] = "pow" -> TPow(x, y)

C2_ForwardValue ==
    \A i \in Ids : built[i] # "new" => val(heap[i]) = OperatorValue(i)

\* A backward pass has run over a graph holding a quotient and a power.
C2_Witness ==
    /\ Returned("backward")
    /\ \E i, j \in Reachable(heap, Root) :
          /\ built[i] = "div"
          /\ built[j] = "pow"
          /\ IsSome(grad(heap[i]))
          /\ IsSome(grad(heap[j]))

(***************************************************************************)
(* C3: sum rule.  After f.backward(seed) returns for f = a + b, the        *)
(* gradients stored in a and in b both equal seed, whatever they held      *)
(* before.                                                                 *)
(***************************************************************************)
C3_SumRule ==
    (Returned("backward") /\ built[Root] = "add") =>
        /\ grad(heap[Operand(Root, 1)]) = Some(Seed)
        /\ grad(heap[Operand(Root, 2)]) = Some(Seed)

\* The sum rule overwrote a gradient an operand held before the call.
C3_Witness ==
    /\ Returned("backward")
    /\ built[Root] = "add"
    /\ \E j \in {1, 2} :
          /\ IsSome(grad(last.pre[Operand(Root, j)]))
          /\ grad(last.pre[Operand(Root, j)]) # Some(Seed)

(***************************************************************************)
(* C4: product rule.  After f.backward(seed) returns for f = a * b, the    *)
(* gradient of a is b.value * seed and the gradient of b is a.value *      *)
(* seed.                                                                   *)
(***************************************************************************)
C4_ProductRule ==
    (Returned("backward") /\ built[Root] = "mul") =>
        LET a == Operand(Root, 1)
            b == Operand(Root, 2)
        IN  /\ grad(heap[a]) = Some(TMul(val(heap[b]), Seed))
            /\ grad(heap[b]) = Some(TMul(val(heap[a]), Seed))

\* The product rule ran on operands of different values: test_backward_on_prod
\* with 2 and 3 in place of 1.1 and 2.2.
C4_Witness ==
    /\ Returned("backward")
    /\ built[Root] = "mul"
    /\ val(heap[Operand(Root, 1)]) = Num(2)
    /\ val(heap[Operand(Root, 2)]) = Num(3)
    /\ Seed = Num(10)
    /\ grad(heap[Operand(Root, 1)]) = Some(Num(30))
    /\ grad(heap[Operand(Root, 2)]) = Some(Num(20))

(***************************************************************************)
(* C5: two-level composition.  For leaves a, b, c and f = (a + b) * c,     *)
(* f.backward(s) leaves value(f) = (a.value + b.value) * c.value,          *)
(* grad(f) = s, grad(c) = (a.value + b.value) * s, grad(a + b) =           *)
(* c.value * s and grad(a) = grad(b) = c.value * s.                        *)
(***************************************************************************)
IsLeaf(i) == heap[i].tag = "Leaf"

SumTimesLeaf ==
    /\ Returned("backward")
    /\ built[Root] = "mul"
    /\ built[Operand(Root, 1)] = "add"
    /\ IsLeaf(Operand(Root, 2))
    /\ IsLeaf(Operand(Operand(Root, 1), 1))
    /\ IsLeaf(Operand(Operand(Root, 1), 2))

C5_TwoLevelComposition ==
    SumTimesLeaf =>
        LET d == Operand(Root, 1)
            c == Operand(Root, 2)
            a == Operand(d, 1)
            b == Operand(d, 2)
            ab == TAdd(val(heap[a]), val(heap[b]))
        IN  /\ val(heap[Root]) = TMul(ab, val(heap[c]))
            /\ grad(heap[Root]) = Some(Seed)
            /\ grad(heap[c]) = Some(TMul(ab, Seed))
            /\ grad(heap[d]) = Some(TMul(val(heap[c]), Seed))
            /\ grad(heap[a]) = Some(TMul(val(heap[c]), Seed))
            /\ grad(heap[b]) = Some(TMul(val(heap[c]), Seed))

\* test_backward_on_prod_sum: a = 3, b = 2, c = 2, seed 10.
C5_Witness ==
    /\ SumTimesLeaf
    /\ Seed = Num(10)
    /\ val(heap[Operand(Operand(Root, 1), 1)]) = Num(3)
    /\ val(heap[Operand(Operand(Root, 1), 2)]) = Num(2)
    /\ val(heap[Operand(Root, 2)]) = Num(2)
    /\ val(heap[Root]) = Num(10)
    /\ grad(heap[Root]) = Some(Num(10))
    /\ grad(heap[Operand(Root, 2)]) = Some(Num(50))
    /\ grad(heap[Operand(Root, 1)]) = Some(Num(20))
    /\ grad(heap[Operand(Operand(Root, 1), 1)]) = Some(Num(20))
    /\ grad(heap[Operand(Operand(Root, 1), 2)]) = Some(Num(20))

(***************************************************************************)
(* C6: a node that is reached more than once in one backward traversal     *)
(* (it is an operand of two parents that are both reached) ends with the   *)
(* single contribution written on the last visit, depth first with the     *)
(* first operand's subtree before the second's; nothing is accumulated     *)
(* over the paths.                                                         *)
(***************************************************************************)
End(path) == path[Len(path)]

\* The operand paths from the end of path downwards, in depth-first order.
RECURSIVE Preorder(_, _)
Preorder(h, path) ==
    LET ops == h[End(path)].ops
        first == IF Len(ops) >= 1 THEN Preorder(h, Append(path, ops[1]))
                 ELSE <<>>
        second == IF Len(ops) >= 2 THEN Preorder(h, Append(path, ops[2]))
                  ELSE <<>>
    IN  <<path>> \o first \o second

\* The gradient a parent holding g hands to its operand c (the table of
\* per-variant rules).
LocalRule(h, parent, c, g) ==
    LET p == h[parent] IN
    CASE p.tag = "Sum" -> g
      [] p.tag = "Prod" ->
           IF c = p.ops[1] THEN TMul(val(h[p.ops[2]]), g)
           ELSE TMul(val(h[p.ops[1]]), g)
      [] p.tag = "Exp" -> val(p)
      [] p.tag = "Ln" -> TDiv(Num(1), val(p))
      [] p.tag = "Pow" ->
           LET b == val(h[p.ops[1]])
               e == val(h[p.ops[2]])
           IN  IF c = p.ops[1] THEN TMul(e, TPow(b, TAdd(e, Num(-1))))
               ELSE TMul(TPow(b, e), TLn(b))

\* The gradient that arrives at the end of path when the root is seeded.
RECURSIVE Contribution(_, _, _)
Contribution(h, path, seed) ==
    IF Len(path) = 1 THEN seed
    ELSE LET up == SubSeq(path, 1, Len(path) - 1)
         IN  LocalRule(h, End(up), End(path), Contribution(h, up, seed))

RootPaths == Preorder(heap, <<Root>>)

\* The positions in RootPaths of the paths that arrive at c from a parent.
Arrivals(c) ==
    {k \in DOMAIN RootPaths : Len(RootPaths[k]) >= 2 /\ End(RootPaths[k]) = c}

LastOf(S) == CHOOSE k \in S : \A m \in S : m <= k

FirstOf(S) == CHOOSE k \in S : \A m \in S : k <= m

RECURSIVE SumOver(_)
SumOver(S) ==
    IF Cardinality(S) = 1 THEN Contribution(heap, RootPaths[FirstOf(S)], Seed)
    ELSE TAdd(Contribution(heap, RootPaths[FirstOf(S)], Seed),
              SumOver(S \ {FirstOf(S)}))

C6_LastVisitWins ==
    Returned("backward") =>
        \A c \in Ids :
            Cardinality(Arrivals(c)) >= 2 =>
                grad(heap[c]) =
                    Some(Contribution(heap, RootPaths[LastOf(Arrivals(c))], Seed))

\* A node with two reached parents whose two contributions differ: it holds
\* the later one, which is neither the earlier one nor their sum.
C6_Witness ==
    /\ Returned("backward")
    /\ \E c \in Ids :
          LET A == Arrivals(c)
              early == Contribution(heap, RootPaths[FirstOf(A)], Seed)
              late == Contribution(heap, RootPaths[LastOf(A)], Seed)
          IN  /\ Cardinality(A) = 2
              /\ LET p == RootPaths[FirstOf(A)]
                      q == RootPaths[LastOf(A)]
                  IN  p[Len(p) - 1] # q[Len(q) - 1]
              /\ early # late
              /\ grad(heap[c]) = Some(late)
              /\ grad(heap[c]) # Some(SumOver(A))

(***************************************************************************)
(* C7: a node's gradient is None until the node is reached by a backward   *)
(* traversal: no node that was not visited by backward or                  *)
(* propagate_backward holds a Some gradient.  Stated per call: a node that *)
(* has a Some gradient after a call, and had none (or did not exist)       *)
(* before it, was reached by that call's traversal.                        *)
(***************************************************************************)
Operators == {"add", "mul", "div", "exp", "ln", "pow"}

Traversals == {"backward", "propagate_backward"}

GainedGrad(i) ==
    /\ IsSome(grad(heap[i]))
    /\ i \in DOMAIN last.pre => ~IsSome(grad(last.pre[i]))

ReachedByLast(i) ==
    /\ last.op \in Traversals
    /\ i \in Reachable(heap, Root)

C7_NoneUntilTraversed ==
    \A i \in Ids : GainedGrad(i) => ReachedByLast(i)

(***************************************************************************)
(* C7 as amended: a node's gradient is None until the node is reached by a *)
(* backward traversal or written by set_grad, unless Node::new created it  *)
(* with an initial gradient or clone copied it from a node whose gradient  *)
(* was Some.                                                               *)
(***************************************************************************)
C7_NoneUntilWritten ==
    \A i \in Ids :
        GainedGrad(i) =>
            \/ ReachedByLast(i)
            \/ last.op = "set_grad" /\ i = last.res
            \/ last.op = "new" /\ i = last.res
            \/ /\ last.op = "clone"
               /\ i = last.res
               /\ grad(heap[i]) = grad(last.pre[last.args[1]])
               /\ IsSome(grad(last.pre[last.args[1]]))

\* A backward pass gave gradients to the nodes below its root and left an
\* operator-built node outside the traversal without one.
C7_Witness ==
    /\ Returned("backward")
    /\ \E i \in Below(heap, Root) : GainedGrad(i)
    /\ \E j \in Ids \ Reachable(heap, Root) :
          built[j] \in Operators /\ ~IsSome(grad(heap[j]))

(***************************************************************************)
(* C8: graph construction never touches gradients.  The node returned by   *)
(* +, *, /, exp, ln or pow has gradient None whatever its operands hold,   *)
(* and every node that existed before keeps its gradient.                  *)
(***************************************************************************)
C8_ConstructionKeepsGrads ==
    last.op \in Operators =>
        /\ Len(heap) = Len(last.pre) + 1
        /\ last.res = Len(heap)
        /\ grad(heap[last.res]) = None
        /\ \A i \in DOMAIN last.pre : grad(heap[i]) = grad(last.pre[i])

\* test_add: an operand that holds a gradient and one that does not.
C8_Witness ==
    /\ last.op \in Operators
    /\ \E i, j \in Operands(heap, last.res) :
          /\ IsSome(grad(heap[i]))
          /\ ~IsSome(grad(heap[j]))

(***************************************************************************)
(* C9: value, variant tag and operand links are fixed at construction.     *)
(* set_grad, backward and propagate_backward change gradients only.        *)
(***************************************************************************)
C9_GradientOnlyWrites ==
    last.op \in Traversals \cup {"set_grad"} =>
        /\ Len(heap) = Len(last.pre)
        /\ \A i \in Ids :
              /\ val(heap[i]) = val(last.pre[i])
              /\ heap[i].tag = last.pre[i].tag
              /\ heap[i].ops = last.pre[i].ops

\* A backward pass that changed gradients two operand links below its root.
C9_Witness ==
    /\ Returned("backward")
    /\ \E i \in Operands(heap, Root) : \E j \in Operands(heap, i) :
          grad(heap[j]) # grad(last.pre[j])

(***************************************************************************)
(* C10: the operand relation is acyclic in every reachable state: no node  *)
(* is reachable from itself through operand links, and every operand was   *)
(* built before its parent.                                                *)
(***************************************************************************)
C10_Acyclic ==
    \A i \in Ids :
        /\ i \notin Below(heap, i)
        /\ \A c \in Operands(heap, i) : c < i

\* A diamond: two operands of one node share an operand of their own.
C10_Witness ==
    \E k \in Ids : \E i, j \in Operands(heap, k) :
        /\ i # j
        /\ Operands(heap, i) \cap Operands(heap, j) # {}

(***************************************************************************)
(* C12: propagate_backward called on a node whose gradient is None stops   *)
(* the program (unwrap of None) before any write: at the stop the heap is  *)
(* the heap before the call and the call has propagated through no node.   *)
(***************************************************************************)
C12_UnseededStops ==
    (last.op = "propagate_backward" /\ ~IsSome(grad(last.pre[Root]))) =>
        /\ panicked
        /\ last.trace = <<>>
        /\ heap = last.pre

\* The stop happened on a node that has operands the call could have written.
C12_Witness ==
    /\ last.op = "propagate_backward"
    /\ panicked
    /\ ~IsSome(grad(last.pre[Root]))
    /\ Cardinality(Operands(heap, Root)) = 2

(***************************************************************************)
(* C16: a / b is a Prod-tagged node whose value is a.value / b.value, and  *)
(* f.backward(seed) on f = a / b applies the product rule: grad(a) =       *)
(* b.value * seed and grad(b) = a.value * seed.                            *)
(***************************************************************************)
C16_DivProductRule ==
    /\ \A i \in Ids :
          built[i] = "div" =>
              /\ heap[i].tag = "Prod"
              /\ val(heap[i]) =
                     TDiv(val(heap[Operand(i, 1)]), val(heap[Operand(i, 2)]))
    /\ (Returned("backward") /\ built[Root] = "div") =>
          LET a == Operand(Root, 1)
              b == Operand(Root, 2)
          IN  /\ grad(heap[a]) = Some(TMul(val(heap[b]), Seed))
              /\ grad(heap[b]) = Some(TMul(val(heap[a]), Seed))

\* The quotient rule's gradients for f = a / b with the seed of the call.
QuotientRule(a, b, seed) ==
    <<TDiv(seed, b),
      TDiv(TMul(TMul(Num(-1), a), seed), TMul(b, b))>>

\* test_div with 3 and 2: the stored gradients are the product rule's, and
\* both differ from the quotient rule's.
C16_Witness ==
    /\ Returned("backward")
    /\ built[Root] = "div"
    /\ val(heap[Operand(Root, 1)]) = Num(3)
    /\ val(heap[Operand(Root, 2)]) = Num(2)
    /\ val(heap[Root]) = Q(3, 2)
    /\ Seed = Num(10)
    /\ grad(heap[Operand(Root, 1)]) = Some(Num(20))
    /\ grad(heap[Operand(Root, 2)]) = Some(Num(30))
    /\ QuotientRule(Num(3), Num(2), Seed) = <<Num(5), Q(-15, 2)>>

(***************************************************************************)
(* C17: ln(x) is an Exp-tagged node whose value is ln(x.value), so         *)
(* f.backward(seed) on f = ln(x) stores f.value in x; no node ever carries *)
(* the Ln tag, so the Ln arm of propagate_backward never runs.             *)
(***************************************************************************)
C17_LnRunsExpRule ==
    /\ \A i \in Ids : heap[i].tag # "Ln"
    /\ \A i \in Ids :
          built[i] = "ln" =>
              /\ heap[i].tag = "Exp"
              /\ val(heap[i]) = TLn(val(heap[Operand(i, 1)]))
    /\ (Returned("backward") /\ built[Root] = "ln") =>
          grad(heap[Operand(Root, 1)]) = Some(val(heap[Root]))

\* backward on ln(2): the operand holds ln(2), which is not 1 / 2.
C17_Witness ==
    /\ Returned("backward")
    /\ built[Root] = "ln"
    /\ val(heap[Operand(Root, 1)]) = Num(2)
    /\ grad(heap[Operand(Root, 1)]) = Some(TLn(Num(2)))
    /\ grad(heap[Operand(Root, 1)]) # Some(TDiv(Num(1), Num(2)))

(***************************************************************************)
(* C19: backward never stops on a panic.  Every gradient propagate_backward *)
(* reads below the receiver is Some, so a traversal panics only when       *)
(* propagate_backward is called directly on a node without a gradient; the *)
(* two operands of a node are different cells and no node is below itself, *)
(* so no cell is borrowed while a borrow of it is live.                    *)
(***************************************************************************)
C19_BackwardNeverAborts ==
    /\ last.op = "backward" => ~panicked
    /\ (last.op \in Traversals /\ panicked) =>
          /\ last.op = "propagate_backward"
          /\ ~IsSome(grad(last.pre[Root]))
    /\ \A i \in Ids :
          /\ Len(heap[i].ops) = 2 => heap[i].ops[1] # heap[i].ops[2]
          /\ i \notin Below(heap, i)

\* A backward pass over a diamond: some node is reached along two paths.
C19_Witness ==
    /\ Returned("backward")
    /\ \E c \in Ids : Cardinality(Arrivals(c)) >= 2

(***************************************************************************)
(* C20: clone copies the node's own value and gradient into a new cell and *)
(* shares its operands.  A gradient written to a node itself (set_grad, or *)
(* the seed of backward) shows on no other node; a traversal changes       *)
(* nothing outside the nodes reachable from its receiver, and a node the   *)
(* client holds is never an operand, so the source of a clone is not       *)
(* reached through its copies; the operands of the copy are the operands   *)
(* of the source, so what a traversal from the copy writes into them shows *)
(* on the source's operands.                                               *)
(***************************************************************************)
\* The nodes other than i that refer to the operand cells i refers to.
Sharers(i) ==
    {n \in Ids \ {i} : heap[n].ops # <<>> /\ heap[n].ops = heap[i].ops}

C20_CloneSharesOperands ==
    /\ last.op = "clone" =>
          LET n == last.args[1]
              c == last.res
          IN  /\ c \notin DOMAIN last.pre
              /\ val(heap[c]) = val(last.pre[n])
              /\ grad(heap[c]) = grad(last.pre[n])
              /\ heap[c].tag = last.pre[n].tag
              /\ heap[c].ops = last.pre[n].ops
              /\ \A i \in DOMAIN last.pre : heap[i] = last.pre[i]
    /\ last.op = "set_grad" =>
          \A i \in Ids \ {last.res} : heap[i] = last.pre[i]
    /\ last.op \in Traversals =>
          /\ \A i \in Ids \ Reachable(heap, Root) : heap[i] = last.pre[i]
          /\ \A n \in Sharers(Root) :
                /\ n \notin Reachable(heap, Root)
                /\ Operands(heap, n) \subseteq Reachable(heap, Root)
    /\ \A i \in owned : \A j \in Ids : i \notin Operands(heap, j)

\* backward from a copy of a node with operands: the source keeps its own
\* gradient, which differs from the copy's, and the shared operands hold the
\* gradients the pass wrote.
C20_Witness ==
    /\ Returned("backward")
    /\ \E n \in Sharers(Root) :
          /\ grad(heap[n]) = grad(last.pre[n])
          /\ grad(heap[n]) # grad(heap[Root])
          /\ \A o \in Operands(heap, n) :
                /\ ~IsSome(grad(last.pre[o]))
                /\ IsSome(grad(heap[o]))

(***************************************************************************)
(* impl AddAssign for Node<T>, and the client that uses a Node through the *)
(* Element contract only (Clone, +, +=, *, /), as a tensor does with its   *)
(* elements.                                                               *)
(***************************************************************************)
add_assign(h, self, rhs) == Stop(Running(h))

AddAssign ==
    /\ ~panicked
    /\ \E l \in owned : \E r \in owned \ {l} :
          LET res == add_assign(heap, l, r) IN
          /\ heap' = res.h
          /\ panicked' = ~res.ok
          /\ owned' = owned \ {r}
          /\ last' = Call("add_assign", <<l, r>>, l, None, res.trace)
          /\ UNCHANGED <<built, passes>>

NextElement ==
    \/ New
    \/ Add
    \/ AddAssign
    \/ Mul
    \/ Div
    \/ Clone

SpecElement == Init /\ [][NextElement]_vars

(***************************************************************************)
(* C13: Node satisfies the closed operations of the Element contract: for  *)
(* any two nodes a and b, each of a + b, a += b, a * b and a / b completes *)
(* and leaves or returns a Node; no operation of the contract aborts.      *)
(***************************************************************************)
ElementOps == {"add", "add_assign", "mul", "div"}

C13_ElementOpsComplete ==
    last.op \in ElementOps =>
        /\ ~panicked
        /\ last.res \in owned
        /\ last.res \in Ids

(***************************************************************************)
(* The client of a repeated gradient pass: it builds a graph, may set      *)
(* gradients by hand, and then runs root.backward(s1).backward(s2), the    *)
(* fluent chain that backward's return value allows.                       *)
(***************************************************************************)
BackwardTwice ==
    /\ ~panicked
    /\ passes <= MaxPasses
    /\ \E root \in owned, s1 \in SeedVals, s2 \in SeedVals :
          LET r1 == backward(heap, root, s1)
              r2 == IF r1.ok THEN backward(r1.h, root, s2) ELSE r1
          IN  /\ heap' = r2.h
              /\ panicked' = ~r2.ok
              /\ passes' = MaxPasses + 1
              /\ last' = Call("backward_twice", <<root>>, root, Some(s2),
                               r2.trace)
              /\ UNCHANGED <<owned, built>>

\* The graph-building calls of this client, up to RepeatNodes nodes.
RepeatNew == NextId <= RepeatNodes /\ New

RepeatAdd == NextId <= RepeatNodes /\ Add

RepeatMul == NextId <= RepeatNodes /\ Mul

RepeatDiv == NextId <= RepeatNodes /\ Div

RepeatExp == NextId <= RepeatNodes /\ Exp

RepeatLn == NextId <= RepeatNodes /\ Ln

RepeatPow == NextId <= RepeatNodes /\ Pow

RepeatClone == NextId <= RepeatNodes /\ Clone

NextRepeat ==
    \/ RepeatNew
    \/ RepeatAdd
    \/ RepeatMul
    \/ RepeatDiv
    \/ RepeatExp
    \/ RepeatLn
    \/ RepeatPow
    \/ RepeatClone
    \/ SetGrad
    \/ BackwardTwice

SpecRepeat == Init /\ [][NextRepeat]_vars

(***************************************************************************)
(* C11: calling backward again without resetting overwrites.  For any      *)
(* graph and seeds s1, s2 the gradients of all nodes after                 *)
(* root.backward(s1).backward(s2) are those after a single                 *)
(* root.backward(s2) on the same graph, whatever gradients the graph held  *)
(* before: nothing is accumulated across passes.                           *)
(***************************************************************************)
\* The heap h with every gradient reset to None.
Erased(h) == [i \in DOMAIN h |-> [h[i] EXCEPT !.grad = None]]

C11_SecondPassOverwrites ==
    last.op = "backward_twice" =>
        /\ ~panicked
        /\ heap = backward(last.pre, Root, Seed).h
        /\ \A i \in Reachable(heap, Root) :
              grad(heap[i]) = grad(backward(Erased(last.pre), Root, Seed).h[i])
        /\ \A i \in Ids \ Reachable(heap, Root) :
              grad(heap[i]) = grad(last.pre[i])

\* Two passes with different seeds over a diamond in which a node below the
\* root held a gradient before the first pass.
C11_Witness ==
    /\ last.op = "backward_twice"
    /\ ~panicked
    /\ \E c \in Ids : Cardinality(Arrivals(c)) >= 2
    /\ \E i \in Below(heap, Root) :
          /\ IsSome(grad(last.pre[i]))
          /\ grad(last.pre[i]) # grad(heap[i])
    /\ \E s1 \in SeedVals :
          s1 # Seed /\ backward(last.pre, Root, s1).h # heap

(***************************************************************************)
(* The client that shares sub-expressions: it builds graphs of up to       *)
(* SharedNodes nodes from leaves, +, exp, pow and clone, and runs one      *)
(* backward pass.                                                          *)
(***************************************************************************)
SharedNew ==
    /\ ~panicked
    /\ NextId <= SharedNodes
    /\ Cardinality({i \in Ids : built[i] = "new"}) < SharedLeaves
    /\ \E v \in LeafVals :
          /\ heap' = Append(heap, new(v, None))
          /\ owned' = owned \cup {NextId}
          /\ built' = Append(built, "new")
          /\ last' = Call("new", <<>>, NextId, None, <<>>)
          /\ UNCHANGED <<passes, panicked>>

SharedAdd ==
    /\ ~panicked
    /\ NextId <= SharedNodes
    /\ \E l \in owned : \E r \in owned \ {l} :
          Construct(add(heap, l, r), "add", <<l, r>>)

SharedExp ==
    /\ ~panicked
    /\ NextId <= SharedNodes
    /\ \E x \in owned :
          Construct(exp(heap, x), "exp", <<x>>)

SharedPow ==
    /\ ~panicked
    /\ NextId <= SharedNodes
    /\ \E b \in owned : \E e \in owned \ {b} :
          Construct(pow(heap, b, e), "pow", <<b, e>>)

SharedClone ==
    /\ ~panicked
    /\ NextId <= SharedNodes
    /\ \E x \in owned :
          /\ heap' = Append(heap, clone(heap[x]))
          /\ owned' = owned \cup {NextId}
          /\ built' = Append(built, built[x])
          /\ last' = Call("clone", <<x>>, NextId, None, <<>>)
          /\ UNCHANGED <<passes, panicked>>

NextShared ==
    \/ SharedNew
    \/ SharedAdd
    \/ SharedExp
    \/ SharedPow
    \/ SharedClone
    \/ Backward

SpecShared == Init /\ [][NextShared]_vars

(***************************************************************************)
(* Vocabulary of C18.                                                      *)
(***************************************************************************)
Unchained == {"Exp", "Pow"}

\* The gradient of x does not depend on the seed given to the latest call.
SeedIndependent(x) ==
    \A s \in SeedVals :
        grad(heap[x]) = grad(backward(last.pre, Root, s).h[x])

\* The Exp and Pow rules at the receiver of the latest backward call, whose
\* own gradient is the seed.
UnchainedRules ==
    Returned("backward") =>
        /\ heap[Root].tag = "Exp" =>
              grad(heap[Operand(Root, 1)]) = Some(val(heap[Root]))
        /\ heap[Root].tag = "Pow" =>
              LET b == val(heap[Operand(Root, 1)])
                  e == val(heap[Operand(Root, 2)])
              IN  /\ grad(heap[Operand(Root, 1)]) =
                         Some(TMul(e, TPow(b, TAdd(e, Num(-1)))))
                  /\ grad(heap[Operand(Root, 2)]) =
                         Some(TMul(TPow(b, e), TLn(b)))

\* The operand path runs through an Exp or Pow node above its end.
ThroughUnchained(path) ==
    \E k \in 1..(Len(path) - 1) : heap[path[k]].tag \in Unchained

(***************************************************************************)
(* C18: the Exp and Pow rules ignore the incoming gradient: on f = exp(x)  *)
(* propagate_backward writes grad(x) = f.value, on f = pow(b, e) it writes *)
(* grad(b) = e.value * b.value^(e.value - 1) and grad(e) =                 *)
(* b.value^e.value * ln(b.value), whatever f's own gradient is; hence      *)
(* every gradient stored at or below the operand of an Exp or Pow node of  *)
(* the traversed graph is independent of the seed passed to backward.      *)
(***************************************************************************)
C18_SeedIndependentBelow ==
    /\ UnchainedRules
    /\ Returned("backward") =>
          \A f \in Reachable(heap, Root) :
              heap[f].tag \in Unchained =>
                  \A x \in Below(heap, f) : SeedIndependent(x)

(***************************************************************************)
(* C18 as amended: the rules are as stated, and the gradient stored in a   *)
(* node is independent of the seed when the operand path on which the      *)
(* traversal visits the node last runs through an Exp or Pow node.         *)
(***************************************************************************)
C18_SeedIndependentLastVisit ==
    /\ UnchainedRules
    /\ Returned("backward") =>
          \A x \in Below(heap, Root) :
              ThroughUnchained(RootPaths[LastOf(Arrivals(x))]) =>
                  SeedIndependent(x)

\* A leaf shared by an operand of an Exp node and by a copy of that operand:
\* the copy is visited first and the path through the Exp node last, and the
\* leaf holds the same gradient for every seed although the copy does not.
C18_Witness ==
    /\ Returned("backward")
    /\ \E x \in Below(heap, Root) :
          LET A == Arrivals(x) IN
          /\ Cardinality(A) = 2
          /\ ~ThroughUnchained(RootPaths[FirstOf(A)])
          /\ ThroughUnchained(RootPaths[LastOf(A)])
          /\ SeedIndependent(x)
    /\ \E y \in Below(heap, Root) : ~SeedIndependent(y)

(***************************************************************************)
(* TensorImpl<E> (tensors/src/lib.rs).  A tensor is a record of its shape, *)
(* a Vec<usize>, and its data, a Vec<E>.  A usize is written <<m, k>> for  *)
(* m * 2^(32 k) with 0 < m < 2^32, or <<0, 0>> for zero: a usize holds     *)
(* UsizeLimbs such 32-bit limbs, so a product with k >= UsizeLimbs does    *)
(* not fit and wraps to zero.  The element type E is u16, one of the       *)
(* integer types that implement Element.  checks says whether the build    *)
(* has overflow checks (a debug build panics on an integer overflow, a     *)
(* release build wraps).                                                   *)
(***************************************************************************)
USize(m, k) == IF m = 0 THEN <<0, 0>> ELSE <<m, k>>

Big == USize(1, 1)

usize_mul(x, y) ==
    IF x[1] = 0 \/ y[1] = 0 THEN [v |-> USize(0, 0), overflow |-> FALSE]
    ELSE IF x[2] + y[2] >= UsizeLimbs
    THEN [v |-> USize(0, 0), overflow |-> TRUE]
    ELSE [v |-> USize(x[1] * y[1], x[2] + y[2]), overflow |-> FALSE]

u16_add(a, b) == [v |-> (a + b) % (U16Max + 1), overflow |-> a + b > U16Max]

Ok(x) == <<"ok", x>>

Err(e) == <<"err", e>>

Value(x) == <<"value", x>>

Panic == <<"panic">>

\* shape.iter().product::<usize>(), folded from acc over the entries left.
RECURSIVE product(_, _, _)
product(acc, entries, checks) ==
    IF entries = <<>> THEN [v |-> acc, ok |-> TRUE]
    ELSE LET p == usize_mul(acc, Head(entries)) IN
         IF p.overflow /\ checks THEN [v |-> acc, ok |-> FALSE]
         ELSE product(p.v, Tail(entries), checks)

\* The message of the error, without the quotes around data and shape.
LengthMismatch ==
    "The length of the data param does not match the values of the shape param"

from_vec(shape, data, checks) ==
    LET p == product(USize(1, 0), shape, checks) IN
    IF ~p.ok THEN Panic
    ELSE IF p.v # USize(Len(data), 0) THEN Err(LengthMismatch)
    ELSE Ok([shape |-> shape, data |-> data])

shape(t) == t.shape

Zip(a, b) ==
    [i \in 1..(IF Len(a) < Len(b) THEN Len(a) ELSE Len(b)) |-> <<a[i], b[i]>>]

\* Faulty variant of the tensor addition: the shapes are not compared.
TensorImpl_add_AnyShape(self, other, checks) ==
    LET sums == [i \in DOMAIN Zip(self.data, other.data) |->
                     u16_add(self.data[i], other.data[i])]
        data == [i \in DOMAIN sums |-> sums[i].v]
        made == from_vec(shape(self), data, checks)
    IN  IF checks /\ \E i \in DOMAIN sums : sums[i].overflow THEN Panic
        ELSE IF made[1] = "ok" THEN Value(made[2])
        ELSE Panic

TensorImpl_add(self, other, checks) ==
    IF shape(self) # shape(other) THEN Panic
    ELSE
    LET sums == [i \in DOMAIN Zip(self.data, other.data) |->
                     u16_add(self.data[i], other.data[i])]
        data == [i \in DOMAIN sums |-> sums[i].v]
        made == from_vec(shape(self), data, checks)
    IN  IF checks /\ \E i \in DOMAIN sums : sums[i].overflow THEN Panic
        ELSE IF made[1] = "ok" THEN Value(made[2])
        ELSE Panic

(***************************************************************************)
(* The client of the tensors: it calls from_vec on a shape and a data      *)
(* vector, and adds a tensor to the tensor from_vec returned last.         *)
(***************************************************************************)
SeqsUpTo(S, n) == UNION {[1..k -> S] : k \in 0..n}

Shapes == SeqsUpTo({USize(i, 0) : i \in ShapeNums} \cup {Big}, MaxRank)

Datas == SeqsUpTo(ElemNums, MaxData)

\* The tensors a build can hold: TensorImpl's fields are private and
\* from_vec is its only constructor.
Tensors ==
    [checks \in BOOLEAN |->
        {from_vec(sd[1], sd[2], checks)[2] :
            sd \in {x \in Shapes \X Datas :
                       from_vec(x[1], x[2], checks)[1] = "ok"}}]

TensorCall(name, args, res, checks) ==
    [op |-> name, args |-> args, res |-> res, checks |-> checks,
     seed |-> None, trace |-> <<>>, pre |-> heap]

\* One run of the program is one build.
SameBuild(checks) ==
    IF last.op = "init" THEN TRUE ELSE last.checks = checks

FromVec ==
    /\ ~panicked
    /\ \E checks \in BOOLEAN, sh \in Shapes, data \in Datas :
          LET res == from_vec(sh, data, checks) IN
          /\ SameBuild(checks)
          /\ last' = TensorCall("from_vec", <<sh, data>>, res, checks)
          /\ panicked' = (res = Panic)
          /\ UNCHANGED <<heap, owned, built, passes>>

TensorAdd ==
    /\ ~panicked
    /\ last.op = "from_vec"
    /\ last.res[1] = "ok"
    /\ \E other \in Tensors[last.checks] :
          LET self == last.res[2]
              res == TensorImpl_add(self, other, last.checks)
          IN  /\ last' = TensorCall("add", <<self, other>>, res, last.checks)
              /\ panicked' = (res = Panic)
              /\ UNCHANGED <<heap, owned, built, passes>>

NextTensor ==
    \/ FromVec
    \/ TensorAdd

SpecTensor == Init /\ [][NextTensor]_vars

(***************************************************************************)
(* Vocabulary of C14 and C15.                                              *)
(***************************************************************************)
\* The product of the entries as a natural number, m * 2^(32 k) written
\* <<m, k>> with no limit on k.
RECURSIVE TrueProduct(_)
TrueProduct(entries) ==
    IF entries = <<>> THEN USize(1, 0)
    ELSE LET h == Head(entries)
             t == TrueProduct(Tail(entries))
         IN  USize(h[1] * t[1], h[2] + t[2])

\* product(shape) == data.len(), as the tensor's own code computes it.
Consistent(t) ==
    product(USize(1, 0), t.shape, FALSE).v = USize(Len(t.data), 0)

(***************************************************************************)
(* C14: from_vec(shape, data) returns the error with the length-mismatch   *)
(* message exactly when the product of the entries of shape differs from   *)
(* data.len(); otherwise it returns a tensor whose shape() is the given    *)
(* shape and whose data is the given data in the same order.               *)
(***************************************************************************)
C14_FromVecChecksLength ==
    last.op = "from_vec" =>
        LET sh == last.args[1]
            data == last.args[2]
            matches == TrueProduct(sh) = USize(Len(data), 0)
        IN  /\ (last.res = Err(LengthMismatch)) <=> ~matches
            /\ matches =>
                  /\ last.res[1] = "ok"
                  /\ shape(last.res[2]) = sh
                  /\ last.res[2].data = data

(***************************************************************************)
(* C15: t1 + t2 panics when t1.shape() differs from t2.shape(); when the   *)
(* shapes are equal it never fails and returns a tensor of that shape      *)
(* whose i-th element is t1.data[i] + t2.data[i] for every i;              *)
(* product(shape) == data.len() holds for the operands and the result.     *)
(***************************************************************************)
\* The sum of two elements in E's arithmetic.
ElementSum(a, b) == (a + b) % (U16Max + 1)

ElementwiseSum(t1, t2, t3) ==
    /\ shape(t3) = shape(t1)
    /\ Len(t3.data) = Len(t1.data)
    /\ \A i \in DOMAIN t1.data :
          t3.data[i] = ElementSum(t1.data[i], t2.data[i])
    /\ Consistent(t3)

Invocations(i) == Cardinality({k \in DOMAIN last.trace : last.trace[k] = i})

\* The number of operand paths from the root of the latest call to i.
PathsTo(i) == Cardinality({k \in DOMAIN RootPaths : End(RootPaths[k]) = i})

C21_OncePerPath ==
    last.op = "backward" =>
        /\ ~panicked
        /\ last.trace = [k \in DOMAIN RootPaths |-> End(RootPaths[k])]
        /\ \A i \in Ids : Invocations(i) = PathsTo(i)
        /\ \A i \in Ids : IsLeaf(i) => Operands(heap, i) = {}

\* A backward pass over a diamond: a leaf entered twice, its parent once.
C21_Witness ==
    /\ Returned("backward")
    /\ \E i \in Reachable(heap, Root) :
          /\ IsLeaf(i)
          /\ PathsTo(i) = 2
          /\ Invocations(i) = 2
    /\ \E j \in Below(heap, Root) :
          /\ ~IsLeaf(j)
          /\ Invocations(j) = 1

====
